---------------------------- MODULE Spec2Model ----------------------------
(***************************************************************************)
(* zeecm/parking: the SVY21 <-> WGS84 coordinate transformation engine     *)
(* (zc_parking/coordinate_transformation.py) and the URA parking API       *)
(* client (zc_parking/parking_api.py).                                     *)
(*                                                                         *)
(* Numbers are binary floating-point values with a 29-bit significand      *)
(* (TLC integers are 32-bit), the double's exponent range, infinities and  *)
(* NaN.  Every value carries its Python type: a numpy.float64 scalar       *)
(* (np = TRUE) or a built-in float (np = FALSE); an operation with a numpy *)
(* operand follows numpy's rules (special values, never an exception), an  *)
(* operation on two built-in floats follows Python's (ZeroDivisionError,   *)
(* OverflowError), modelled by the value Raise.                            *)
(***************************************************************************)
EXTENDS Integers, Sequences, FiniteSets, TLC

-----------------------------------------------------------------------------
(* Floating-point values                                                   *)

MantMin == 2^28
MantMax == 2^29
MaxExp == 1024 - 29
MinExp == (0 - 1074) - 29

Fin(s, m, e, np) == [k |-> "fin", s |-> s, m |-> m, e |-> e, np |-> np]
Zero(np) == Fin(1, 0, 0, np)
Inf(s, np) == [k |-> "inf", s |-> s, m |-> 0, e |-> 0, np |-> np]
NaN(np) == [k |-> "nan", s |-> 1, m |-> 0, e |-> 0, np |-> np]
Raise == [k |-> "raise", s |-> 1, m |-> 0, e |-> 0, np |-> FALSE]

IsFin(x) == x.k = "fin"
IsZero(x) == x.k = "fin" /\ x.m = 0
IsInf(x) == x.k = "inf"
IsNaN(x) == x.k = "nan"
IsRaise(x) == x.k = "raise"

RECURSIVE ShiftUp(_, _)
ShiftUp(n, e) ==
    IF n >= MantMin THEN <<n, e>>
    ELSE IF n < 2^14 THEN ShiftUp(n * 2^14, e - 14)
    ELSE IF n < 2^24 THEN ShiftUp(n * 2^4, e - 4)
    ELSE ShiftUp(n * 2, e - 1)

(* The value s * n * 2^e for 0 <= n < 2^31, rounded to the significand's   *)
(* width (half up), overflowing to infinity and underflowing to zero.      *)
Pack(s, m, e, np) ==
    IF e > MaxExp THEN Inf(s, np)
    ELSE IF e < MinExp THEN Zero(np)
    ELSE Fin(s, m, e, np)

Carry(s, me, np) ==
    IF me[1] = MantMax THEN Pack(s, MantMin, me[2] + 1, np)
    ELSE Pack(s, me[1], me[2], np)

Norm(s, n, e, np) ==
    IF n = 0 THEN Zero(np)
    ELSE IF n >= 2 * MantMax
      THEN Carry(s, <<(n \div 4) + ((n \div 2) % 2), e + 2>>, np)
    ELSE IF n >= MantMax
      THEN Carry(s, <<(n \div 2) + (n % 2), e + 1>>, np)
    ELSE Carry(s, ShiftUp(n, e), np)

FromInt(n) == IF n < 0 THEN Norm(-1, 0 - n, 0, FALSE) ELSE Norm(1, n, 0, FALSE)

FNeg(x) == IF x.k \in {"fin", "inf"} /\ ~IsZero(x) THEN [x EXCEPT !.s = 0 - x.s] ELSE x
FAbs(x) == IF x.k \in {"fin", "inf"} THEN [x EXCEPT !.s = 1] ELSE x
AsNp(x) == IF IsRaise(x) THEN x ELSE [x EXCEPT !.np = TRUE]

AddFin(x, y, np) ==
    IF x.m = 0 THEN [y EXCEPT !.np = np]
    ELSE IF y.m = 0 THEN [x EXCEPT !.np = np]
    ELSE LET big == IF x.e >= y.e THEN x ELSE y
             small == IF x.e >= y.e THEN y ELSE x
             d == big.e - small.e
         IN  IF d > 30 THEN [big EXCEPT !.np = np]
             ELSE LET A == big.m * 2
                      B == (small.m * 2) \div (2^d)
                  IN  IF big.s = small.s THEN Norm(big.s, A + B, big.e - 1, np)
                      ELSE IF A >= B THEN Norm(big.s, A - B, big.e - 1, np)
                      ELSE Norm(small.s, B - A, big.e - 1, np)

FAdd(x, y) ==
    LET np == x.np \/ y.np IN
    IF IsRaise(x) \/ IsRaise(y) THEN Raise
    ELSE IF IsNaN(x) \/ IsNaN(y) THEN NaN(np)
    ELSE IF IsInf(x) /\ IsInf(y) THEN (IF x.s = y.s THEN Inf(x.s, np) ELSE NaN(np))
    ELSE IF IsInf(x) THEN Inf(x.s, np)
    ELSE IF IsInf(y) THEN Inf(y.s, np)
    ELSE AddFin(x, y, np)

FSub(x, y) == FAdd(x, FNeg(y))

MulFin(x, y, np) ==
    IF x.m = 0 \/ y.m = 0 THEN Zero(np)
    ELSE LET ah == x.m \div 2^15
             al == x.m % 2^15
             bh == y.m \div 2^15
             bl == y.m % 2^15
             hi == ah * bh
             mid == ah * bl + al * bh
             lo == al * bl
             low == (mid % 2^15) * 2^15 + lo
             top == hi + (mid \div 2^15) + (low \div 2^30)
             rem == low % 2^30
         IN  Norm(x.s * y.s, top * 4 + (rem \div 2^28), x.e + y.e + 28, np)

FMul(x, y) ==
    LET np == x.np \/ y.np IN
    IF IsRaise(x) \/ IsRaise(y) THEN Raise
    ELSE IF IsNaN(x) \/ IsNaN(y) THEN NaN(np)
    ELSE IF IsInf(x) \/ IsInf(y)
      THEN (IF IsZero(x) \/ IsZero(y) THEN NaN(np) ELSE Inf(x.s * y.s, np))
    ELSE MulFin(x, y, np)

RECURSIVE DivDigits(_, _, _, _)
DivDigits(q, r, b, n) ==
    IF n = 0 THEN q
    ELSE DivDigits(4 * q + ((4 * r) \div b), (4 * r) % b, b, n - 1)

DivFin(x, y, np) ==
    IF x.m = 0 THEN Zero(np)
    ELSE Norm(x.s * y.s, DivDigits(x.m \div y.m, x.m % y.m, y.m, 15),
              x.e - y.e - 30, np)

(* x / y: a zero divisor raises ZeroDivisionError between built-in floats  *)
(* and gives inf or nan (with a RuntimeWarning) when numpy divides.        *)
FDiv(x, y) ==
    LET np == x.np \/ y.np IN
    IF IsRaise(x) \/ IsRaise(y) THEN Raise
    ELSE IF IsNaN(x) \/ IsNaN(y) THEN NaN(np)
    ELSE IF IsInf(x) THEN (IF IsInf(y) THEN NaN(np)
                           ELSE IF IsZero(y) THEN (IF np THEN Inf(x.s, np) ELSE Raise)
                           ELSE Inf(x.s * y.s, np))
    ELSE IF IsInf(y) THEN Zero(np)
    ELSE IF IsZero(y) THEN (IF ~np THEN Raise
                            ELSE IF IsZero(x) THEN NaN(np) ELSE Inf(x.s, np))
    ELSE DivFin(x, y, np)


(* x ** n for a literal n >= 1, by repeated multiplication.  Between        *)
(* built-in floats an overflowing power raises OverflowError; numpy gives   *)
(* inf.                                                                     *)
RECURSIVE PowMul(_, _)
PowMul(x, n) == IF n = 1 THEN x ELSE FMul(PowMul(x, n - 1), x)

PowChecked(x, r) == IF IsFin(x) /\ IsInf(r) /\ ~x.np THEN Raise ELSE r
FPow(x, n) == PowChecked(x, PowMul(x, n))

IsNegative(x) == x.k \in {"fin", "inf"} /\ x.s = -1 /\ ~IsZero(x)
FLt(x, y) == IsNegative(FSub(x, y))
NotPositive(d) == IsNegative(d) \/ IsZero(d)
FLe(x, y) == NotPositive(FSub(x, y))
(* Equal as numbers, whatever the two Python types.                         *)
FEq(x, y) == x.k = y.k /\ x.s = y.s /\ x.m = y.m /\ x.e = y.e /\ x.k \in {"fin", "inf"}

(* whole.frac as a decimal literal with the given number of decimals.       *)
Dec(whole, frac, decimals) ==
    FAdd(FromInt(whole), FDiv(FromInt(frac), FromInt(10^decimals)))

FOne == FromInt(1)
FHalf == FDiv(FromInt(1), FromInt(2))

RECURSIVE ISqrt(_, _)
ISqrt(n, r) ==
    LET r2 == (r + (n \div r)) \div 2 IN
    IF r2 >= r THEN r ELSE ISqrt(n, r2)

SqrtSeed(x) ==
    IF x.e % 2 = 1 THEN Norm(1, ISqrt(2 * x.m, 2^15), (x.e - 1) \div 2, TRUE)
    ELSE Norm(1, ISqrt(x.m, 2^15), x.e \div 2, TRUE)

NewtonSqrt(x, y) == FMul(FHalf, FAdd(y, FDiv(x, y)))

(* np.sqrt: nan for a negative argument.  The root of the significand      *)
(* seeds two Newton steps.                                                  *)
NpSqrt(x) ==
    IF IsRaise(x) THEN Raise
    ELSE IF IsNaN(x) THEN NaN(TRUE)
    ELSE IF IsNegative(x) THEN NaN(TRUE)
    ELSE IF IsInf(x) THEN Inf(1, TRUE)
    ELSE IF IsZero(x) THEN Zero(TRUE)
    ELSE AsNp(NewtonSqrt(x, NewtonSqrt(x, SqrtSeed(x))))

(* np.power(x, 3.0 / 2.0) = x * sqrt(x); nan for a negative base.           *)
NpPower3Halves(x) == FMul(AsNp(x), NpSqrt(x))

PI == Dec(3, 141592653, 9)
PiOver180 == FDiv(PI, FromInt(180))
HalfPi == FMul(FHalf, PI)

(* The nearest integer to a finite x with |x| < 2^29; larger arguments are  *)
(* outside the model (no case applies).                                     *)
RoundToInt(x) ==
    CASE x.m = 0 -> 0
      [] x.m # 0 /\ x.e >= 0 /\ x.e <= 1 -> x.s * x.m * 2^(x.e)
      [] x.m # 0 /\ x.e < 0 /\ x.e >= -30 -> x.s * ((x.m + 2^((0 - x.e) - 1)) \div 2^(0 - x.e))
      [] x.m # 0 /\ x.e < -30 -> 0

(* The argument reduced to [-pi/2, pi/2]: <<r, k>> with x = r + k * pi.     *)
ReduceBy(x, k) == <<FSub(x, FMul(FromInt(k), PI)), k>>
ReduceArg(x) ==
    IF FLe(FAbs(x), HalfPi) THEN <<x, 0>> ELSE ReduceBy(x, RoundToInt(FDiv(x, PI)))

(* Taylor series: term is the last term added, of degree n.                 *)
RECURSIVE Series(_, _, _, _)
SeriesNext(acc, next, x2, n) == Series(FAdd(acc, next), next, x2, n + 2)
Series(acc, term, x2, n) ==
    IF IsZero(term) \/ n > 24 \/ (~IsZero(acc) /\ term.e + 32 < acc.e) THEN acc
    ELSE SeriesNext(acc, FNeg(FDiv(FMul(term, x2), FromInt((n + 1) * (n + 2)))), x2, n)

SinReduced(r) == Series(r, r, FMul(r, r), 1)
CosReduced(r) == Series(FOne, FOne, FMul(r, r), 0)
SignedBy(k, v) == AsNp(IF k % 2 = 0 THEN v ELSE FNeg(v))
SinOfReduced(rk) == SignedBy(rk[2], SinReduced(rk[1]))
CosOfReduced(rk) == SignedBy(rk[2], CosReduced(rk[1]))

NpSin(x) ==
    IF IsRaise(x) THEN Raise
    ELSE IF ~IsFin(x) THEN NaN(TRUE)
    ELSE SinOfReduced(ReduceArg(x))

NpCos(x) ==
    IF IsRaise(x) THEN Raise
    ELSE IF ~IsFin(x) THEN NaN(TRUE)
    ELSE CosOfReduced(ReduceArg(x))

NpTan(x) == FDiv(NpSin(x), NpCos(x))

(* Python's arithmetic operators on these values; F(n) is the literal n.    *)
x (+) y == FAdd(x, y)
x (-) y == FSub(x, y)
x (.) y == FMul(x, y)
x (/) y == FDiv(x, y)
x ** n == FPow(x, n)
F(n) == FromInt(n)

-----------------------------------------------------------------------------
(* CoordinateTransformation: class constants and state                     *)

SEMI_MAJOR_AXIS == Dec(6378137, 0, 1)
FLATTENING == FDiv(FromInt(1), Dec(298, 257223563, 9))
ORIGIN_LATITUDE == Dec(1, 366666, 6)
ORIGIN_LONGITUDE == Dec(103, 833333, 6)
FALSE_NORTHING == Dec(38744, 572, 3)
FALSE_EASTING == Dec(28001, 642, 3)
SCALE_FACTOR == Dec(1, 0, 1)
LATITUDE_ITERATIONS == 5

VARIABLES
    semi_minor_axis,        \* self.semi_minor_axis
    eccentricity_squared,   \* self.eccentricity_squared
    equatorial_arc_consts,  \* self.equatorial_arc_consts: 1..4 -> float
    pc,                     \* per caller: where its call stands
    op,                     \* per caller: "fwd", "inv" or "none"
    args,                   \* per caller: the call's two arguments
    src,                    \* per caller: the (lat, lon) an inverse call's arguments were projected from
    iter,                   \* per caller: iterations of the latitude loop done
    frame,                  \* per caller: the call's local variables
    result,                 \* per caller: the value returned
    api,                    \* the URAParkingAPI instance: "none", "constructing", "ready", "failed"
    given_token,            \* the token argument of the constructor
    headers,                \* self._headers: header name -> value
    call,                   \* the data method waiting for its response, or "none"
    sent,                   \* the requests sent so far, in order
    finished,               \* the method that ended last, or "none"
    outcome                 \* what it returned or raised

engineVars == <<semi_minor_axis, eccentricity_squared, equatorial_arc_consts>>
callVars == <<pc, op, args, src, iter, frame, result>>
clientVars == <<api, given_token, headers, call, sent, finished, outcome>>

calculate_eccentricity_squared ==
    (F(2) (.) FLATTENING) (-) (FLATTENING (.) FLATTENING)

calculate_equatorial_arc_consts(e_squared) ==
    LET e_fourth == e_squared (.) e_squared
        e_sixth == e_fourth (.) e_squared
        coefficient_a1 ==
            ((F(1) (-) (e_squared (/) F(4))) (-) ((F(3) (.) e_fourth) (/) F(64)))
                (-) ((F(5) (.) e_sixth) (/) F(256))
        coefficient_a2 ==
            (F(3) (/) F(8))
                (.) ((e_squared (+) (e_fourth (/) F(4))) (+) ((F(15) (.) e_sixth) (/) F(128)))
        coefficient_a3 ==
            (F(15) (/) F(256)) (.) (e_fourth (+) ((F(3) (.) e_sixth) (/) F(4)))
        coefficient_a4 == (F(35) (.) e_sixth) (/) F(3072)
    IN  <<coefficient_a1, coefficient_a2, coefficient_a3, coefficient_a4>>

(* The three fields as __init__ leaves them.                                *)
InitSemiMinorAxis == SEMI_MAJOR_AXIS (.) (F(1) (-) FLATTENING)
InitEccentricitySquared == calculate_eccentricity_squared
InitEquatorialArcConsts == calculate_equatorial_arc_consts(InitEccentricitySquared)

(* math.radians in place of np.deg2rad: a built-in float comes back.        *)
degrees_to_radians_builtin(degrees) == degrees (.) PiOver180

(* np.deg2rad, np.rad2deg                                                   *)
degrees_to_radians(degrees) == AsNp(degrees (.) PiOver180)
radians_to_degrees(radians) == AsNp(radians (.) (F(180) (/) PI))

calculate_meridian_distance(latitude_radians) ==
    LET coefficient_a1 == equatorial_arc_consts[1]
        coefficient_a2 == equatorial_arc_consts[2]
        coefficient_a3 == equatorial_arc_consts[3]
        coefficient_a4 == equatorial_arc_consts[4]
    IN  SEMI_MAJOR_AXIS
          (.) ((((coefficient_a1 (.) latitude_radians)
                   (-) (coefficient_a2 (.) NpSin(F(2) (.) latitude_radians)))
                   (+) (coefficient_a3 (.) NpSin(F(4) (.) latitude_radians)))
                   (-) (coefficient_a4 (.) NpSin(F(6) (.) latitude_radians)))

(* The parameter is named for sin^2; its value is whatever the caller      *)
(* passes.                                                                  *)
calculate_radius_of_curvature(sin_squared_latitude) ==
    LET num == SEMI_MAJOR_AXIS (.) (F(1) (-) eccentricity_squared)
        denom == NpPower3Halves(
                     F(1) (-) (eccentricity_squared (.) NpSin(sin_squared_latitude)))
    IN  num (/) denom

calculate_radius_of_curvature_prime_vertical(sin_squared_latitude) ==
    LET poly == F(1) (-) (eccentricity_squared (.) sin_squared_latitude)
    IN  SEMI_MAJOR_AXIS (/) NpSqrt(poly)

-----------------------------------------------------------------------------
(* Forward transform: convert_lat_lon_to_svy21                              *)

northing_terms(sin_latitude, cos_latitude, meridian_distance_origin, delta_longitude) ==
    LET coefficient_a2 == equatorial_arc_consts[2]
        northing_term1 ==
            ((delta_longitude ** 2) (/) F(2))
                (.) meridian_distance_origin (.) sin_latitude (.) cos_latitude
        northing_term2 ==
            ((delta_longitude ** 4) (/) F(24))
                (.) meridian_distance_origin (.) sin_latitude (.) (cos_latitude ** 3)
                (.) (((F(4) (.) (coefficient_a2 ** 2)) (+) coefficient_a2)
                        (-) (sin_latitude ** 2))
        northing_term3 ==
            ((delta_longitude ** 6) (/) F(720))
                (.) meridian_distance_origin (.) sin_latitude (.) (cos_latitude ** 5)
                (.) ((((((F(8) (.) (coefficient_a2 ** 3))
                            (.) (F(11) (-) (F(24) (.) sin_latitude (.) sin_latitude)))
                        (-) ((F(28) (.) (coefficient_a2 ** 2))
                            (.) (F(1) (-) (F(6) (.) sin_latitude (.) sin_latitude))))
                        (+) ((coefficient_a2 ** 2)
                            (.) (F(1) (-) (F(32) (.) sin_latitude (.) sin_latitude))))
                        (-) (coefficient_a2 (.) F(2) (.) sin_latitude (.) sin_latitude))
                        (+) (cos_latitude ** 4))
        northing_term4 ==
            ((delta_longitude ** 8) (/) F(40320))
                (.) meridian_distance_origin (.) sin_latitude (.) (cos_latitude ** 7)
                (.) (((F(1385) (-) (F(3111) (.) sin_latitude (.) sin_latitude))
                        (+) (F(543) (.) (cos_latitude ** 4)))
                        (-) (cos_latitude ** 6))
    IN  <<northing_term1, northing_term2, northing_term3, northing_term4>>

(* Lines 144-151, t the four terms.                                         *)
northing_return(meridian_distance, meridian_distance_origin, t) ==
    FALSE_NORTHING
      (+) (SCALE_FACTOR
             (.) (((((meridian_distance (-) meridian_distance_origin)
                     (+) t[1]) (+) t[2]) (+) t[3]) (+) t[4]))

compute_northing(sin_latitude, cos_latitude, meridian_distance, meridian_distance_origin, delta_longitude) ==
    northing_return(meridian_distance, meridian_distance_origin,
                    northing_terms(sin_latitude, cos_latitude,
                                   meridian_distance_origin, delta_longitude))

easting_terms(sin_latitude, cos_latitude, delta_longitude) ==
    LET coefficient_a2 == equatorial_arc_consts[2]
        easting_term1 ==
            ((delta_longitude ** 2) (/) F(6))
                (.) cos_latitude (.) (coefficient_a2 (-) (sin_latitude ** 2))
        easting_term2 ==
            ((delta_longitude ** 4) (/) F(120))
                (.) (cos_latitude ** 4)
                (.) (((((F(4) (.) (coefficient_a2 ** 3))
                            (.) (F(1) (-) (F(6) (.) sin_latitude (.) sin_latitude)))
                        (+) ((coefficient_a2 ** 2)
                            (.) (F(1) (+) (F(8) (.) sin_latitude (.) sin_latitude))))
                        (-) (coefficient_a2 (.) F(2) (.) sin_latitude (.) sin_latitude))
                        (+) (cos_latitude ** 4))
        easting_term3 ==
            ((delta_longitude ** 6) (/) F(5040))
                (.) (cos_latitude ** 6)
                (.) (((F(61) (-) (F(479) (.) sin_latitude (.) sin_latitude))
                        (+) (F(179) (.) (cos_latitude ** 4)))
                        (-) (cos_latitude ** 6))
    IN  <<easting_term1, easting_term2, easting_term3>>

(* Lines 191-198, t the three terms.                                        *)
easting_return(cos_latitude, meridian_distance, delta_longitude, t) ==
    FALSE_EASTING
      (+) (SCALE_FACTOR (.) meridian_distance (.) delta_longitude (.) cos_latitude
             (.) (((F(1) (+) t[1]) (+) t[2]) (+) t[3]))

compute_easting(sin_latitude, cos_latitude, meridian_distance, delta_longitude) ==
    easting_return(cos_latitude, meridian_distance, delta_longitude,
                   easting_terms(sin_latitude, cos_latitude, delta_longitude))

(* The origin longitude subtracted in degrees.                              *)
delta_longitude_unconverted(longitude_radians) ==
    longitude_radians (-) ORIGIN_LONGITUDE

(* Lines 74-76.                                                             *)
delta_longitude_of(longitude_radians) ==
    longitude_radians (-) degrees_to_radians(ORIGIN_LONGITUDE)

-----------------------------------------------------------------------------
(* Inverse transform: convert_svy21_to_lat_lon                              *)

origin_latitude_radians == (ORIGIN_LATITUDE (.) PI) (/) F(180)

(* Lines 211-261: the four terms, given sin_latitude and                    *)
(* kr = SCALE_FACTOR * radius_of_curvature_prime_vertical; term1 is         *)
(* latitude_term1.                                                          *)
latitude_term1_of(northings, kr) == (northings (-) FALSE_NORTHING) (/) kr

latitude_terms_after(term1, kr, sin_latitude) ==
    LET coefficient_a2 == equatorial_arc_consts[2]
        latitude_term2 ==
            (term1 (/) (kr ** 3))
              (.) ((FNeg(coefficient_a2) (/) F(6))
                     (.) (F(1) (-) ((coefficient_a2 ** 2)
                            (.) (((((F(5) (+) (F(3) (.) coefficient_a2))
                                    (+) (F(10) (.) (coefficient_a2 ** 2)))
                                    (-) (F(4) (.) (coefficient_a2 ** 3)))
                                    (-) (F(9) (.) (sin_latitude ** 2)))))))
        latitude_term3 ==
            (term1 (/) (kr ** 5))
              (.) ((FNeg(coefficient_a2 ** 3) (/) F(120))
                     (.) ((((F(5) (-) (F(18) (.) (coefficient_a2 ** 2)))
                            (+) (coefficient_a2 ** 4))
                            (+) (F(14) (.) (sin_latitude ** 2)))
                            (-) (F(58) (.) (coefficient_a2 ** 2) (.) (sin_latitude ** 2))))
        latitude_term4 ==
            (term1 (/) (kr ** 7))
              (.) ((FNeg(coefficient_a2 ** 5) (/) F(5040))
                     (.) (((F(61) (-) (F(479) (.) (coefficient_a2 ** 2)))
                            (+) (F(179) (.) (coefficient_a2 ** 4)))
                            (-) (coefficient_a2 ** 6)))
    IN  <<term1, latitude_term2, latitude_term3, latitude_term4>>

latitude_terms(northings, kr, sin_latitude) ==
    latitude_terms_after(latitude_term1_of(northings, kr), kr, sin_latitude)

(* Lines 263-269, t the four terms.                                         *)
latitude_update(t) ==
    (((origin_latitude_radians (+) t[1]) (+) t[2]) (+) t[3]) (+) t[4]

(* The locals one pass of the loop body (lines 206-269) leaves.             *)
iteration_locals(sin_latitude, radius_of_curvature_prime_vertical, t) ==
    [sin_latitude |-> sin_latitude,
     radius_of_curvature_prime_vertical |-> radius_of_curvature_prime_vertical,
     latitude_terms |-> t,
     latitude_radians |-> latitude_update(t)]

iteration_with_radius(northings, sin_latitude, radius_of_curvature_prime_vertical) ==
    iteration_locals(sin_latitude, radius_of_curvature_prime_vertical,
                     latitude_terms(northings,
                                    SCALE_FACTOR (.) radius_of_curvature_prime_vertical,
                                    sin_latitude))

iteration_with_sine(northings, sin_latitude) ==
    iteration_with_radius(northings, sin_latitude,
                          calculate_radius_of_curvature_prime_vertical(sin_latitude))

latitude_iteration(northings, latitude_radians) ==
    iteration_with_sine(northings, NpSin(latitude_radians))

(* Lines 281-334: the four terms, given tan^2 and                           *)
(* kr = SCALE_FACTOR * radius_of_curvature * sec_latitude; term1 is         *)
(* longitude_term1.                                                         *)
longitude_terms_after(term1, kr, tangent_squared_latitude) ==
    LET coefficient_a2 == equatorial_arc_consts[2]
        longitude_term2 ==
            (term1 (/) (kr ** 3))
              (.) ((coefficient_a2 (/) F(2)) (.) tangent_squared_latitude)
        longitude_term3 ==
            (term1 (/) (kr ** 5))
              (.) ((coefficient_a2 (/) F(24)) (.) tangent_squared_latitude
                     (.) (((F(5) (-) tangent_squared_latitude)
                            (+) (F(9) (.) coefficient_a2))
                            (+) (F(4) (.) (coefficient_a2 ** 2))))
        longitude_term4 ==
            (term1 (/) (kr ** 7))
              (.) ((coefficient_a2 (/) F(720)) (.) tangent_squared_latitude
                     (.) ((F(61) (+) (F(90) (.) tangent_squared_latitude))
                            (+) (F(45) (.) (tangent_squared_latitude ** 2))))
    IN  <<term1, longitude_term2, longitude_term3, longitude_term4>>

longitude_terms_with(eastings, kr, tangent_squared_latitude) ==
    longitude_terms_after(eastings (/) kr, kr, tangent_squared_latitude)

Square(x) == x (.) x

(* Lines 276-334.                                                           *)
longitude_terms(eastings, latitude_radians) ==
    longitude_terms_with(
        eastings,
        SCALE_FACTOR (.) calculate_radius_of_curvature(NpSin(latitude_radians))
            (.) (F(1) (/) NpCos(latitude_radians)),
        Square(NpTan(latitude_radians)))

(* Lines 336-342, t the four terms.                                         *)
longitude_return(t) ==
    (((degrees_to_radians(ORIGIN_LONGITUDE) (+) t[1]) (+) t[2]) (+) t[3]) (+) t[4]

calculate_longitude_from_easting(eastings, latitude_radians) ==
    longitude_return(longitude_terms(eastings, latitude_radians))

-----------------------------------------------------------------------------
(* The URA client: values                                                   *)

None == "<None>"
NoHeaders == [name \in {} |-> ""]
NoOutcome == [kind |-> "none", rows |-> 0]

TOKEN_ENDPOINT == "insertNewToken.action"
CARPARK_LOTS_ENDPOINT == "invokeUraDS?service=Car_Park_Availability"
CARPARK_LIST_RATES_ENDPOINT == "invokeUraDS?service=Car_Park_Details"

(* A response body: the text of a JSON object, or text that json.loads      *)
(* rejects.                                                                 *)
JsonText(object) == [valid |-> TRUE, object |-> object]
NotJson == [valid |-> FALSE, object |-> [key \in {} |-> ""]]

(* ParkingAPI._text_json_to_dict: the parsed object, or the text under the  *)
(* key "failed to decode".                                                  *)
text_json_to_dict(text) ==
    IF text.valid THEN text.object ELSE [key \in {"failed to decode"} |-> text]

(* ParkingAPI._make_api_call, lines 34-38, on the response received.        *)
base_make_api_call(response) ==
    IF response.status_code # 200
    THEN [key \in {"error"} |-> response.text]
    ELSE text_json_to_dict(response.text)

(* dict.get(key, default)                                                   *)
Get(dict, key, default) == IF key \in DOMAIN dict THEN dict[key] ELSE default

(* What the methods end in.  A table is modelled by its number of rows.     *)
DataFrame(records) == [kind |-> "DataFrame", rows |-> Len(records)]
Raised(exception) == [kind |-> exception, rows |-> 0]
Returned_None == [kind |-> "None", rows |-> 0]

(* URAParkingAPI._make_api_call, lines 71-74, then lines 98-101 or 119-121  *)
(* of the data method: result["Status"] raises KeyError without the key.    *)
data_method_outcome(response) ==
    LET api_result == base_make_api_call(response)
    IN  IF "Status" \notin DOMAIN api_result
        THEN Raised("KeyError")
        ELSE IF Len(Get(api_result, "Result", <<>>)) > 0
             THEN DataFrame(Get(api_result, "Result", <<>>))
             ELSE DataFrame(<<>>)

(* Line 61: token or self._get_token(), by the truth value of token.        *)
AlwaysFetches(token) == TRUE

UsesGetToken(token) == token \in {None, ""}

-----------------------------------------------------------------------------
(* Callers of one shared engine                                             *)

NumCallers == 2
Callers == 1..NumCallers

FZ == Zero(FALSE)
BlankFrame ==
    [sin_latitude |-> FZ, cos_latitude |-> FZ,
     meridian_distance |-> FZ, meridian_distance_origin |-> FZ,
     delta_longitude |-> FZ,
     northing_terms |-> <<FZ, FZ, FZ, FZ>>, easting_terms |-> <<FZ, FZ, FZ>>,
     latitude_radians |-> FZ, radius_of_curvature_prime_vertical |-> FZ,
     latitude_terms |-> <<FZ, FZ, FZ, FZ>>, longitude_terms |-> <<FZ, FZ, FZ, FZ>>]
NoPair == <<FZ, FZ>>

(* An exception leaves the call through every frame.                        *)
Raises(values) == \E i \in DOMAIN values : IsRaise(values[i])

Init ==
    /\ semi_minor_axis = InitSemiMinorAxis
    /\ eccentricity_squared = InitEccentricitySquared
    /\ equatorial_arc_consts = InitEquatorialArcConsts
    /\ pc = [c \in Callers |-> "idle"]
    /\ op = [c \in Callers |-> "none"]
    /\ args = [c \in Callers |-> NoPair]
    /\ src = [c \in Callers |-> NoPair]
    /\ iter = [c \in Callers |-> 0]
    /\ frame = [c \in Callers |-> BlankFrame]
    /\ result = [c \in Callers |-> NoPair]
    /\ api = "none"
    /\ given_token = None
    /\ headers = NoHeaders
    /\ call = "none"
    /\ sent = <<>>
    /\ finished = "none"
    /\ outcome = NoOutcome

Free(c) == pc[c] \in {"idle", "done", "raised"}

(* convert_lat_lon_to_svy21(latitude, longitude) is called.                 *)
BeginForward(c, latitude, longitude) ==
    /\ Free(c)
    /\ pc' = [pc EXCEPT ![c] = "fwd_setup"]
    /\ op' = [op EXCEPT ![c] = "fwd"]
    /\ args' = [args EXCEPT ![c] = <<latitude, longitude>>]
    /\ src' = [src EXCEPT ![c] = NoPair]
    /\ iter' = [iter EXCEPT ![c] = 0]
    /\ frame' = [frame EXCEPT ![c] = BlankFrame]
    /\ result' = [result EXCEPT ![c] = NoPair]
    /\ UNCHANGED engineVars
    /\ UNCHANGED clientVars

(* Lines 63-76: radians, sine and cosine, the two meridian distances, the   *)
(* longitude difference.                                                    *)
ForwardLocals(c) ==
    /\ pc[c] = "fwd_setup"
    /\ \E latitude_radians \in {degrees_to_radians(args[c][1])},
          longitude_radians \in {degrees_to_radians(args[c][2])} :
       \E sin_latitude \in {NpSin(latitude_radians)},
          cos_latitude \in {NpCos(latitude_radians)},
          meridian_distance \in {calculate_meridian_distance(latitude_radians)},
          meridian_distance_origin \in
              {calculate_meridian_distance(degrees_to_radians(ORIGIN_LATITUDE))},
          delta_longitude \in {delta_longitude_of(longitude_radians)} :
           /\ frame' = [frame EXCEPT ![c] =
                  [@ EXCEPT !.sin_latitude = sin_latitude,
                            !.cos_latitude = cos_latitude,
                            !.meridian_distance = meridian_distance,
                            !.meridian_distance_origin = meridian_distance_origin,
                            !.delta_longitude = delta_longitude]]
           /\ pc' = [pc EXCEPT ![c] =
                  IF Raises(<<sin_latitude, cos_latitude, meridian_distance,
                              meridian_distance_origin, delta_longitude>>)
                  THEN "raised" ELSE "fwd_series"]
    /\ UNCHANGED <<op, args, src, iter, result>>
    /\ UNCHANGED clientVars

(* _calculate_meridian_distance scaling the first coefficient in place.    *)
ForwardSetupScaling(c) ==
    /\ ForwardLocals(c)
    /\ equatorial_arc_consts' =
           [equatorial_arc_consts EXCEPT ![1] = SEMI_MAJOR_AXIS (.) @]
    /\ UNCHANGED <<semi_minor_axis, eccentricity_squared>>

ForwardSetup(c) == ForwardLocals(c) /\ UNCHANGED engineVars

(* Lines 78-89: the two series and the returned SVY21Coordinates.           *)
ForwardSeries(c) ==
    /\ pc[c] = "fwd_series"
    /\ \E f \in {frame[c]} :
       \E northing \in {compute_northing(f.sin_latitude, f.cos_latitude, f.meridian_distance,
                                         f.meridian_distance_origin, f.delta_longitude)},
          easting \in {compute_easting(f.sin_latitude, f.cos_latitude,
                                       f.meridian_distance, f.delta_longitude)} :
           /\ frame' = [frame EXCEPT ![c] =
                  [@ EXCEPT !.northing_terms =
                                northing_terms(f.sin_latitude, f.cos_latitude,
                                               f.meridian_distance_origin, f.delta_longitude),
                            !.easting_terms =
                                easting_terms(f.sin_latitude, f.cos_latitude,
                                              f.delta_longitude)]]
           /\ result' = [result EXCEPT ![c] =
                  IF Raises(<<northing, easting>>) THEN NoPair ELSE <<northing, easting>>]
           /\ pc' = [pc EXCEPT ![c] =
                  IF Raises(<<northing, easting>>) THEN "raised" ELSE "done"]
    /\ UNCHANGED <<op, args, src, iter>>
    /\ UNCHANGED clientVars
    /\ UNCHANGED engineVars

StartInverse(c, northings, eastings, from) ==
    /\ pc' = [pc EXCEPT ![c] = "inv_lat"]
    /\ op' = [op EXCEPT ![c] = "inv"]
    /\ args' = [args EXCEPT ![c] = <<northings, eastings>>]
    /\ src' = [src EXCEPT ![c] = from]
    /\ iter' = [iter EXCEPT ![c] = 0]
    /\ frame' = [frame EXCEPT ![c] =
           [BlankFrame EXCEPT !.latitude_radians = origin_latitude_radians]]
    /\ result' = [result EXCEPT ![c] = NoPair]
    /\ UNCHANGED engineVars
    /\ UNCHANGED clientVars

(* convert_svy21_to_lat_lon(northings, eastings) is called; line 202 sets   *)
(* the first latitude estimate.                                             *)
BeginInverse(c, northings, eastings) ==
    /\ Free(c)
    /\ StartInverse(c, northings, eastings, NoPair)

(* The round trip: convert_svy21_to_lat_lon applied to the northing and    *)
(* easting the caller's convert_lat_lon_to_svy21 call returned.             *)
BeginInverseOfResult(c) ==
    /\ pc[c] = "done"
    /\ op[c] = "fwd"
    /\ StartInverse(c, result[c][1], result[c][2], args[c])

(* range(4)                                                                 *)
LoopRunningOneShort(c) == iter[c] < LATITUDE_ITERATIONS - 1

(* for _ in range(5)                                                        *)
LoopRunning(c) == iter[c] < LATITUDE_ITERATIONS

(* Lines 205-269: one pass of the latitude loop.                            *)
LatitudeLocals(c) ==
    /\ pc[c] = "inv_lat"
    /\ LoopRunning(c)
    /\ \E it \in {latitude_iteration(args[c][1], frame[c].latitude_radians)} :
           /\ frame' = [frame EXCEPT ![c] =
                  [@ EXCEPT !.sin_latitude = it.sin_latitude,
                            !.radius_of_curvature_prime_vertical =
                                it.radius_of_curvature_prime_vertical,
                            !.latitude_terms = it.latitude_terms,
                            !.latitude_radians = it.latitude_radians]]
           /\ pc' = [pc EXCEPT ![c] =
                  IF IsRaise(it.latitude_radians) THEN "raised" ELSE "inv_lat"]
    /\ iter' = [iter EXCEPT ![c] = @ + 1]
    /\ UNCHANGED <<op, args, src, result>>
    /\ UNCHANGED clientVars

(* The radicand kept in self.eccentricity_squared instead of a local.       *)
LatitudeIterationScratch(c) ==
    /\ LatitudeLocals(c)
    /\ eccentricity_squared' =
           F(1) (-) (eccentricity_squared (.) NpSin(frame[c].latitude_radians))
    /\ UNCHANGED <<semi_minor_axis, equatorial_arc_consts>>

LatitudeIteration(c) == LatitudeLocals(c) /\ UNCHANGED engineVars

(* Line 271: the loop is exhausted and the latitude returned.               *)
LatitudeReturn(c) ==
    /\ pc[c] = "inv_lat"
    /\ ~LoopRunning(c)
    /\ pc' = [pc EXCEPT ![c] = "inv_lon"]
    /\ UNCHANGED <<op, args, src, iter, frame, result>>
    /\ UNCHANGED clientVars
    /\ UNCHANGED engineVars

(* Lines 348-355: the longitude series, the conversion to degrees and the   *)
(* returned DegreeCoordinates.                                              *)
Longitude(c) ==
    /\ pc[c] = "inv_lon"
    /\ \E latitude_radians \in {frame[c].latitude_radians} :
       \E longitude_radians \in
              {calculate_longitude_from_easting(args[c][2], latitude_radians)} :
       \E latitude_degrees \in {radians_to_degrees(latitude_radians)},
          longitude_degrees \in {radians_to_degrees(longitude_radians)} :
           /\ frame' = [frame EXCEPT ![c] =
                  [@ EXCEPT !.longitude_terms = longitude_terms(args[c][2], latitude_radians)]]
           /\ result' = [result EXCEPT ![c] =
                  IF Raises(<<latitude_degrees, longitude_degrees>>)
                  THEN NoPair ELSE <<latitude_degrees, longitude_degrees>>]
           /\ pc' = [pc EXCEPT ![c] =
                  IF Raises(<<latitude_degrees, longitude_degrees>>)
                  THEN "raised" ELSE "done"]
    /\ UNCHANGED <<op, args, src, iter>>
    /\ UNCHANGED clientVars
    /\ UNCHANGED engineVars

Step(c) ==
    \/ ForwardSetup(c)
    \/ ForwardSeries(c)
    \/ LatitudeIteration(c)
    \/ LatitudeReturn(c)
    \/ Longitude(c)

-----------------------------------------------------------------------------
(* The URA client: construction and the data methods                        *)

(* Lines 56-60.                                                             *)
InitialHeaders(access_key) ==
    ("AccessKey" :> access_key)
        @@ ("user-agent" :> "Mozilla/5.0")
        @@ ("x-requested-with" :> "XMLHttpRequest")

(* requests.get(endpoint, headers=...), as the server sees it, and the      *)
(* method that sent it.                                                     *)
Request(endpoint, request_headers, method) ==
    [endpoint |-> endpoint, headers |-> request_headers, during |-> method]

Endpoint(method) ==
    IF method = "get_carpark_lots"
    THEN CARPARK_LOTS_ENDPOINT
    ELSE CARPARK_LIST_RATES_ENDPOINT

MaxRequests == 3

(* URAParkingAPI(access_key, token): lines 56-62, up to the request of      *)
(* _get_token when the token passed is None or empty.                       *)
Construct(access_key, token) ==
    /\ api = "none"
    /\ given_token' = token
    /\ IF UsesGetToken(token)
       THEN /\ headers' = InitialHeaders(access_key)
            /\ sent' = Append(sent, Request(TOKEN_ENDPOINT,
                                            InitialHeaders(access_key), "__init__"))
            /\ api' = "constructing"
            /\ UNCHANGED <<finished, outcome>>
       ELSE /\ headers' = ("Token" :> token) @@ InitialHeaders(access_key)
            /\ api' = "ready"
            /\ finished' = "__init__"
            /\ outcome' = Returned_None
            /\ UNCHANGED sent
    /\ UNCHANGED call
    /\ UNCHANGED <<engineVars, callVars>>

(* _get_token from its response on, lines 83-94, and line 62.               *)
TokenResponse(response) ==
    /\ api = "constructing"
    /\ finished' = "__init__"
    /\ IF response.status_code # 200
       THEN /\ outcome' = Raised("ValueError")
            /\ api' = "failed"
            /\ UNCHANGED headers
       ELSE IF "Status" \notin DOMAIN text_json_to_dict(response.text)
       THEN /\ outcome' = Raised("KeyError")
            /\ api' = "failed"
            /\ UNCHANGED headers
       ELSE /\ headers' =
                  ("Token" :> Get(text_json_to_dict(response.text), "Result", ""))
                      @@ headers
            /\ api' = "ready"
            /\ outcome' = Returned_None
    /\ UNCHANGED <<given_token, call, sent>>
    /\ UNCHANGED <<engineVars, callVars>>

(* get_carpark_lots or get_carpark_list_and_rates up to requests.get,       *)
(* lines 97 and 116, 29-32: the headers sent are self._headers.             *)
DataRequest(method) ==
    /\ api = "ready"
    /\ call = "none"
    /\ Len(sent) < MaxRequests
    /\ call' = method
    /\ sent' = Append(sent, Request(Endpoint(method), headers, method))
    /\ UNCHANGED <<api, given_token, headers, finished, outcome>>
    /\ UNCHANGED <<engineVars, callVars>>

(* The data method from its response on.                                    *)
DataResponse(response) ==
    /\ call # "none"
    /\ finished' = call
    /\ outcome' = data_method_outcome(response)
    /\ call' = "none"
    /\ UNCHANGED <<api, given_token, headers, sent>>
    /\ UNCHANGED <<engineVars, callVars>>

(* What the constructor is given and what the server answers.               *)
AccessKeys == {"", "key"}
Tokens == {None, "", "tok"}
DataMethods == {"get_carpark_lots", "get_carpark_list_and_rates"}
StatusCodes == {200, 500}
Rows == <<[lotType |-> "C"], [lotType |-> "M"]>>
TokenTexts ==
    {NotJson,
     JsonText(("Status" :> "Success") @@ ("Result" :> "fresh")),
     JsonText(("Status" :> "Error") @@ ("Message" :> "invalid key")),
     JsonText(("Result" :> "fresh"))}
DataTexts ==
    {NotJson,
     JsonText(("Status" :> "Success") @@ ("Result" :> Rows)),
     JsonText(("Status" :> "Success") @@ ("Result" :> <<>>)),
     JsonText(("Status" :> "Error") @@ ("Message" :> "invalid token")),
     JsonText(("Message" :> "no status"))}
TokenResponses == [status_code : StatusCodes, text : TokenTexts]
DataResponses == [status_code : StatusCodes, text : DataTexts]

(* The inputs callers pass: the corners and the origin of the region of    *)
(* interest, a pole, negative values, and finite values near the top of    *)
(* the exponent range.                                                      *)
HugeValue == Fin(1, MantMin, 900, FALSE)
Latitudes == {Dec(1, 0, 1), ORIGIN_LATITUDE, Dec(1, 6, 1), F(90)}
Longitudes == {Dec(103, 6, 1), ORIGIN_LONGITUDE, Dec(104, 1, 1), HugeValue}
Svy21Inputs == {<<FALSE_NORTHING, FALSE_EASTING>>, <<F(30000), F(30000)>>,
                <<F(0), HugeValue>>, <<F(0 - 5000000), F(0 - 1000000)>>}

vars == <<semi_minor_axis, eccentricity_squared, equatorial_arc_consts,
          pc, op, args, src, iter, frame, result,
          api, given_token, headers, call, sent, finished, outcome>>

(* One caller: every transform of every input, and every round trip.        *)
Next ==
    \/ \E latitude \in Latitudes, longitude \in Longitudes :
           BeginForward(1, latitude, longitude)
    \/ \E p \in Svy21Inputs : BeginInverse(1, p[1], p[2])
    \/ BeginInverseOfResult(1)
    \/ Step(1)

Spec == Init /\ [][Next]_vars

(* A call in progress, and a step of it: its position or its pass count    *)
(* moves.  Under Spec the steps that move a call in progress are exactly    *)
(* the Step(c) steps, and Step(c) is enabled exactly when c is in progress. *)
Positions == {"fwd_setup", "fwd_series", "inv_lat", "inv_lon"}
InProgress(c) == pc[c] \in Positions
Moves(c) ==
    /\ InProgress(c)
    /\ \E p \in Positions \cup {"done", "raised"}, i \in 0..LATITUDE_ITERATIONS :
          /\ <<p, i>> # <<pc[c], iter[c]>>
          /\ pc' = [pc EXCEPT ![c] = p]
          /\ iter' = [iter EXCEPT ![c] = i]

(* The interpreter does not stop in the middle of a call: a call that has   *)
(* started runs to its end.                                                 *)
FairSpec == Spec /\ WF_<<pc, iter>>(Moves(1))

(* Callers sharing the engine, their calls interleaved step by step.        *)
SharedForwardInputs == {<<Dec(1, 0, 1), Dec(103, 6, 1)>>, <<ORIGIN_LATITUDE, Dec(104, 1, 1)>>}
SharedInverseInputs == {<<F(30000), F(30000)>>}

SharedNext ==
    \E c \in Callers :
        \/ \E p \in SharedForwardInputs : BeginForward(c, p[1], p[2])
        \/ \E p \in SharedInverseInputs : BeginInverse(c, p[1], p[2])
        \/ Step(c)

SharedSpec == Init /\ [][SharedNext]_vars

(* One URAParkingAPI instance and the server it talks to.                   *)
ClientNext ==
    \/ \E access_key \in AccessKeys, token \in Tokens : Construct(access_key, token)
    \/ \E response \in TokenResponses : TokenResponse(response)
    \/ \E method \in DataMethods : DataRequest(method)
    \/ \E response \in DataResponses : DataResponse(response)

ClientSpec == Init /\ [][ClientNext]_vars

-----------------------------------------------------------------------------
(* Properties of the projection engine                                      *)

Within(x, y, tolerance) == FLe(FAbs(x (-) y), tolerance)
SameNumber(x, y) == IsFin(x) /\ IsFin(y) /\ FEq(x, y)
AllZero(terms) == \A i \in DOMAIN terms : IsZero(terms[i])
FinitePair(p) == IsFin(p[1]) /\ IsFin(p[2])

RoundTripTolerance == Dec(0, 1, 6)
OriginTolerance == Dec(0, 1, 5)

Returned(c, operation) == pc[c] = "done" /\ op[c] = operation

InRegion(p) ==
    /\ FLe(Dec(1, 0, 1), p[1]) /\ FLe(p[1], Dec(1, 6, 1))
    /\ FLe(Dec(103, 6, 1), p[2]) /\ FLe(p[2], Dec(104, 1, 1))

(* The inverse transform was applied to the output of a forward transform   *)
(* of a point of the region of interest, and has returned.                  *)
RoundTripReturned(c) ==
    /\ Returned(c, "inv")
    /\ src[c] # NoPair
    /\ InRegion(src[c])

(* C1: for every latitude in [1.0, 1.6] and longitude in [103.6, 104.1],    *)
(* the inverse transform of the forward transform returns the original      *)
(* latitude and longitude, each within 1e-6 degrees.                        *)
C1_RoundTrip ==
    \A c \in Callers :
        RoundTripReturned(c) =>
            /\ Within(result[c][1], src[c][1], RoundTripTolerance)
            /\ Within(result[c][2], src[c][2], RoundTripTolerance)

AtOriginSvy21(c) ==
    /\ SameNumber(args[c][1], FALSE_NORTHING)
    /\ SameNumber(args[c][2], FALSE_EASTING)

(* C2: the inverse transform of (FALSE_NORTHING, FALSE_EASTING) returns     *)
(* approximately (1.366666, 103.833333), and every correction term of the   *)
(* latitude and of the longitude is zero.                                   *)
C2_InverseOrigin ==
    \A c \in Callers :
        (Returned(c, "inv") /\ AtOriginSvy21(c)) =>
            /\ Within(result[c][1], ORIGIN_LATITUDE, OriginTolerance)
            /\ Within(result[c][2], ORIGIN_LONGITUDE, OriginTolerance)
            /\ AllZero(frame[c].latitude_terms)
            /\ AllZero(frame[c].longitude_terms)

AtOriginLatLon(c) ==
    /\ SameNumber(args[c][1], ORIGIN_LATITUDE)
    /\ SameNumber(args[c][2], ORIGIN_LONGITUDE)

(* C3: the forward transform of (ORIGIN_LATITUDE, ORIGIN_LONGITUDE) returns *)
(* exactly (FALSE_NORTHING, FALSE_EASTING): the longitude difference, the   *)
(* meridian distance difference M - M0 and every series term are zero.      *)
C3_ForwardOrigin ==
    \A c \in Callers :
        (Returned(c, "fwd") /\ AtOriginLatLon(c)) =>
            /\ SameNumber(result[c][1], FALSE_NORTHING)
            /\ SameNumber(result[c][2], FALSE_EASTING)
            /\ IsZero(frame[c].delta_longitude)
            /\ IsZero(frame[c].meridian_distance
                        (-) frame[c].meridian_distance_origin)
            /\ AllZero(frame[c].northing_terms)
            /\ AllZero(frame[c].easting_terms)

C3_Witness == \E c \in Callers : Returned(c, "fwd") /\ AtOriginLatLon(c)

EngineConstantsAsConstructed ==
    /\ semi_minor_axis = InitSemiMinorAxis
    /\ eccentricity_squared = InitEccentricitySquared
    /\ equatorial_arc_consts = InitEquatorialArcConsts

(* C5: whatever the interleaving of the callers' transforms, the engine's   *)
(* fields computed at construction never change.                            *)
C5_ConstantsNeverChange == EngineConstantsAsConstructed

C5_Witness ==
    \E c, d \in Callers :
        /\ Returned(c, "fwd") /\ Returned(d, "inv")
        /\ EngineConstantsAsConstructed

(* C6: two calls of the same transform with the same arguments return the   *)
(* same result, whatever was called in between and by whom.                 *)
C6_Deterministic ==
    \A c, d \in Callers :
        (pc[c] = "done" /\ pc[d] = "done" /\ op[c] = op[d] /\ args[c] = args[d])
            => result[c] = result[d]

C6_Witness ==
    \E c, d \in Callers :
        /\ c # d
        /\ Returned(c, "inv") /\ Returned(d, "inv")
        /\ args[c] = args[d]
        /\ result[c] = result[d]

InverseRunning(c) == op[c] = "inv" /\ pc[c] \in {"inv_lat", "inv_lon"}

(* C7: every call of the inverse transform ends; the longitude is computed  *)
(* only after exactly five latitude iterations, converged or not.           *)
C7_FiveIterations ==
    /\ [](\A c \in Callers :
            (pc[c] = "inv_lon" \/ Returned(c, "inv")) =>
                iter[c] = LATITUDE_ITERATIONS)
    /\ \A c \in Callers :
            InverseRunning(c) ~> (pc[c] \in {"done", "raised"})

(* The estimate had converged from the first pass on, and all five ran.     *)
C7_Witness ==
    \E c \in Callers :
        /\ Returned(c, "inv")
        /\ iter[c] = LATITUDE_ITERATIONS
        /\ AllZero(frame[c].latitude_terms)

(* C8: no call of either transform raises, whatever finite numbers it is    *)
(* given; degenerate inputs come back as special floating-point values.     *)
C8_NeverRaises == \A c \in Callers : pc[c] # "raised"

C8_Witness ==
    \E c \in Callers :
        /\ Returned(c, "fwd")
        /\ FinitePair(args[c])
        /\ ~FinitePair(result[c])

(* a / sqrt(1 - e^2 sin^2(phi)), from the sine of the latitude.             *)
PrimeVerticalFormula(sin_latitude) ==
    SEMI_MAJOR_AXIS
        (/) NpSqrt(F(1) (-) (eccentricity_squared (.) Square(sin_latitude)))

NuTolerance == Dec(1, 0, 1)

IterationComputed(c) ==
    /\ op[c] = "inv"
    /\ pc[c] = "inv_lat"
    /\ iter[c] >= 1
    /\ IsFin(frame[c].sin_latitude)

(* C9: in each latitude iteration the prime vertical radius the code        *)
(* computes is a / sqrt(1 - e^2 sin^2(phi)) of the current latitude.        *)
C9_PrimeVerticalRadius ==
    \A c \in Callers :
        IterationComputed(c) =>
            Within(frame[c].radius_of_curvature_prime_vertical,
                   PrimeVerticalFormula(frame[c].sin_latitude),
                   NuTolerance)

-----------------------------------------------------------------------------
(* Properties of the URA client                                             *)

(* C4: get_carpark_lots ends in a table, possibly empty, whatever the HTTP  *)
(* response was: 200 with rows, 200 without Result, not 200, or a body that *)
(* is not JSON; it never ends in an exception.                              *)
C4_AlwaysTable ==
    finished = "get_carpark_lots" => outcome.kind = "DataFrame"

TokenRequests == {i \in DOMAIN sent : sent[i].endpoint = TOKEN_ENDPOINT}
DataRequests == {i \in DOMAIN sent : sent[i].endpoint # TOKEN_ENDPOINT}

(* C10: the token endpoint is requested at most once, during construction   *)
(* and only if the token passed was None or empty; a data request is sent   *)
(* only once the Token header is set, and carries AccessKey and Token.      *)
C10_RequestOrdering ==
    /\ Cardinality(TokenRequests) <= 1
    /\ \A i \in TokenRequests :
          /\ i = 1
          /\ sent[i].during = "__init__"
          /\ given_token \in {None, ""}
    /\ \A i \in DataRequests :
          /\ {"AccessKey", "Token"} \subseteq DOMAIN sent[i].headers
          /\ "Token" \in DOMAIN headers
          /\ api = "ready"

C10_Witness ==
    /\ Len(sent) >= 3
    /\ TokenRequests = {1}
    /\ {sent[i].endpoint : i \in DataRequests}
           = {CARPARK_LOTS_ENDPOINT, CARPARK_LIST_RATES_ENDPOINT}

=============================================================================
